---- MODULE Spec2Model ----
(***************************************************************************)
(* websource-browser: the session store, the session daemon and the client *)
(* of src/websource-browser-module.js as a state machine.                  *)
(*                                                                         *)
(* Every client and every daemon is an operating-system process of its     *)
(* own, so each access to a session file, to a socket or to the browser is *)
(* one step and the steps of different processes interleave.  Inside one   *)
(* daemon the JavaScript handlers run to completion: no timer and no       *)
(* second request of the same daemon runs in the middle of a handler.      *)
(*                                                                         *)
(* The specifications share the actions:                                   *)
(*   Spec          clients and daemons of one session name, clock frozen;  *)
(*   SpecStart     startSession with all the rounds of its poll loop;      *)
(*   SpecIdle      one Running daemon, the clock, the monitor, pings;      *)
(*   SpecCtl       SpecIdle with peers that write what they like;          *)
(*   SpecCap       one Running daemon, a client that calls the page;       *)
(*   SpecTeardown  SpecIdle with a client that may die at any step;        *)
(*   SpecMulti     a second session started beside a Running one;          *)
(*   SpecLong      the clock and a client object that stays attached;      *)
(*   SpecRace      a client that navigates beside a client that pings;     *)
(*   SpecStop      the clock and clients that stop the session;            *)
(*   SpecPing      pingDaemon against an arbitrary peer;                   *)
(*   SpecStore     the SessionManager calls of one process, one at a time; *)
(*   SpecList      SpecStore on names that contain the text .json.         *)
(***************************************************************************)
EXTENDS Integers, Sequences, FiniteSets, TLC

VARIABLES
    now,        \* Date.now(), in milliseconds
    files,      \* the sessions directory: file name -> <<>> or <<record>>
    daemons,    \* pid -> the SessionDaemon process of that pid
    chromes,    \* pid -> the Chrome process spawned by the daemon of that pid
    clients,    \* client -> the WebSourceBrowser object of a client process
    created,    \* history: name -> createSession ran and no deleteSession since
    pongAt,     \* history: pid -> time of the last pong the daemon wrote
    calledAt,   \* history: name -> time of the last command that ran on the page
                \* of the session of that name, -1 when none did
    stopped,    \* history: pids whose record a returned stopSession had read
    storeRet,   \* SpecStore: the last SessionManager call and what it returned
    events,     \* how many outside events (signals, kills, failures) happened
    ops,        \* how many operations the client processes began
    limits,     \* the run's bounds on ops, events and poll rounds, set by Init
    ctl         \* the last request a peer other than pingDaemon sent on a
                \* control channel, and the answer: <<>> or <<request record>>

vars == <<now, files, daemons, chromes, clients, created, pongAt, calledAt, stopped,
          storeRet, events, ops, limits, ctl>>

\* the history kept beside the store's, and the bounds of the run
hist == <<pongAt, calledAt, stopped, storeRet, limits, ctl>>

-----------------------------------------------------------------------------
(* Program constants *)

\* this.timeoutMs = 15 * 60 * 1000
timeoutMs == 15 * 60 * 1000

\* this.checkInterval = 60 * 1000
checkInterval == 60 * 1000

\* findAvailablePort(9320)
ControlPortBase == 9320

\* 9220 + Math.floor(Math.random() * 100)
DebugPortBase == 9220

\* const maxAttempts = 60
maxAttempts == 60

(* Bounds of the model *)

\* how many of the 100 debug ports the random draw may return
NumDebugPorts == 2

\* clock steps per monitor interval (SpecIdle)
StepsPerInterval == 2

\* monitor intervals the clock runs beyond the idle timeout (SpecIdle)
ExtraIntervals == 3

\* process ids a spawn may hand out
MaxDaemons == 2

\* poll rounds of startSession the model runs before the client gives up
\* as after the last of the maxAttempts rounds
MaxPolls == 2

\* operations the client processes begin in one run, all clients together
MaxOps == 3

\* outside events of one run: signals, kills, a Chrome that ends or does not
\* come up, a write that fails
MaxEvents == 1

Pids == 1..MaxDaemons

Clients == {"c1", "c2"}

\* session names are token sequences, so that a file name is name + ".json"
S1 == <<"s1">>

S2 == <<"s2">>

Names == {S1}

StoreNames == {S1, S2}

DebugPorts == {DebugPortBase + i : i \in 0..(NumDebugPorts - 1)}

pollRounds == IF maxAttempts < MaxPolls THEN maxAttempts ELSE MaxPolls

ClockStep == checkInterval \div StepsPerInterval

MaxTime == timeoutMs + ExtraIntervals * checkInterval

-----------------------------------------------------------------------------
(* SessionManager: pure parts *)

getSessionFile(sessionName) == sessionName \o <<".json">>

FileNames == {getSessionFile(n) : n \in StoreNames}

\* new Date().toISOString(): millisecond precision, so nothing is lost
toISOString(t) == <<"ISO", t>>

\* existsSync(getSessionFile(name))
sessionExists(fs, sessionName) == fs[getSessionFile(sessionName)] # <<>>

\* the sessionData object of createSession
sessionData(sessionName, wsEndpoint, pid, headless, t) ==
    [name |-> sessionName, wsEndpoint |-> wsEndpoint, pid |-> pid,
     headless |-> headless, created |-> toISOString(t),
     lastActivity |-> toISOString(t), currentUrl |-> <<>>]

\* getSession: <<>> is null
getSession(fs, sessionName) ==
    IF getSessionFile(sessionName) \in DOMAIN fs
    THEN fs[getSessionFile(sessionName)]
    ELSE <<>>

\* file.replace('.json', ''): the first occurrence is removed
replaceJson(file) ==
    LET i == CHOOSE j \in 1..Len(file) :
                 file[j] = ".json" /\ \A k \in 1..(j - 1) : file[k] # ".json"
    IN SubSeq(file, 1, i - 1) \o SubSeq(file, i + 1, Len(file))

\* listSessions: every directory entry that ends in .json and whose name,
\* as replaceJson gives it, can be read
listSessions(fs) ==
    {getSession(fs, replaceJson(f))[1] :
        f \in {g \in DOMAIN fs : /\ fs[g] # <<>>
                                  /\ g[Len(g)] = ".json"
                                  /\ getSession(fs, replaceJson(g)) # <<>>}}

\* a faulty variant: the updates replace the record
mergeUpdatesOnly(session, updates) == updates

\* { ...session, ...updates }
merge(session, updates) == updates @@ session

\* writeFileSync(getSessionFile(name), JSON.stringify(data))
writeFile(fs, sessionName, data) ==
    [fs EXCEPT ![getSessionFile(sessionName)] = <<data>>]

\* a faulty variant: updateSession writes the updates also without a record
updateSessionUpsert(fs, sessionName, updates) ==
    LET session == getSession(fs, sessionName) IN
    writeFile(fs, sessionName,
              IF session = <<>> THEN updates ELSE merge(session[1], updates))

\* updateSession in one piece: false (nothing written) without a record
updateSession(fs, sessionName, updates) ==
    LET session == getSession(fs, sessionName) IN
    IF session = <<>>
    THEN fs
    ELSE writeFile(fs, sessionName, merge(session[1], updates))

\* deleteSession: unlink when the file exists
deleteSession(fs, sessionName) ==
    [fs EXCEPT ![getSessionFile(sessionName)] = <<>>]

\* session.controlPort is set (truthy)
hasControlPort(session) ==
    /\ session # <<>>
    /\ "controlPort" \in DOMAIN session[1]

-----------------------------------------------------------------------------
(* Processes *)

Dead == {"none", "exited", "crashed", "killed"}

Alive(dm) == dm.pc \notin Dead

NoDaemon ==
    [pc |-> "none", sessionName |-> <<>>, headless |-> TRUE,
     controlPort |-> 0, debugPort |-> 0, wsEndpoint |-> <<>>, browser |-> {},
     lastActivity |-> 0, monitorTimer |-> FALSE, nextTick |-> 0,
     listening |-> FALSE, handlers |-> FALSE, conns |-> {}, req |-> <<>>,
     session |-> <<>>, trigger |-> "none", shutdowns |-> 0]

\* new SessionDaemon(sessionName, {headless}) in the spawned process
NewDaemon(sessionName, headless, t) ==
    [NoDaemon EXCEPT !.pc = "findPort", !.sessionName = sessionName,
                     !.headless = headless, !.lastActivity = t]

\* a process that ended holds no port, no timer, no connection and no memory
Ended(dm, how) ==
    [NoDaemon EXCEPT !.pc = how, !.sessionName = dm.sessionName,
                     !.trigger = dm.trigger]

NoChrome == [state |-> "none", port |-> 0]

ExitedChrome == [state |-> "exited", port |-> 0]

\* no pingDaemon call: its promise, its locals `responded` and `timeout`,
\* its socket, and as history the last chunk read, whether a pong arrived
\* and why the promise rejected
NoPing ==
    [state |-> "none", responded |-> FALSE, timer |-> FALSE, sock |-> "none",
     data |-> <<"none">>, pong |-> FALSE, why |-> "none"]

\* new WebSourceBrowser()
NewClient ==
    [pc |-> "idle", op |-> "none", name |-> <<>>, session |-> <<>>,
     probe |-> <<>>, result |-> "none", attempts |-> 0,
     currentSession |-> <<>>, browser |-> {}, conn |-> 0, reply |-> "none",
     spawned |-> {}, ping |-> "none", deadOwner |-> FALSE, afterStop |-> FALSE,
     pd |-> NoPing, update |-> <<>>]

\* a client process may begin another operation; the client processes are
\* interchangeable, so c1 is the one that begins the first operation of a run
MayBegin(c) ==
    /\ clients[c].pc = "idle"
    /\ ops < limits.ops
    /\ ops = 0 => c = "c1"

\* the operation `op` on `sessionName` begins
Begin(cl, op, sessionName) == [cl EXCEPT !.op = op, !.name = sessionName]

\* history of an operation that read `session` when it began: was the daemon
\* that owns the record killed, had a stopSession of that record returned
Seen(cl, session) ==
    [cl EXCEPT !.session = session,
               !.deadOwner = daemons[session[1].pid].pc = "killed",
               !.afterStop = session[1].pid \in stopped]

\* a control-channel listener is bound to the port
PortInUse(ds, port) ==
    \E d \in Pids : Alive(ds[d]) /\ ds[d].listening /\ ds[d].controlPort = port

\* the Chrome processes that serve the DevTools endpoint on the port
ChromeOnPort(cs, port) == {k \in Pids : cs[k].state = "running" /\ cs[k].port = port}

\* puppeteer.connect({browserWSEndpoint}) succeeds
canConnect(cs, wsEndpoint) ==
    /\ wsEndpoint # <<>>
    /\ cs[wsEndpoint[2]].state = "running"
    /\ cs[wsEndpoint[2]].port = wsEndpoint[1]

\* no session file, no process but the clients, which begin at most maxOps
\* operations and poll at most maxPolls rounds
Fresh(maxOps, maxPolls) ==
    /\ now = 0
    /\ files = [f \in FileNames |-> <<>>]
    /\ daemons = [d \in Pids |-> NoDaemon]
    /\ chromes = [d \in Pids |-> NoChrome]
    /\ clients = [c \in Clients |-> NewClient]
    /\ created = [n \in StoreNames |-> FALSE]
    /\ pongAt = [d \in Pids |-> 0]
    /\ calledAt = [n \in StoreNames |-> -1]
    /\ stopped = {}
    /\ storeRet = <<"none">>
    /\ events = 0
    /\ ops = 0
    /\ limits = [ops |-> maxOps, events |-> MaxEvents, polls |-> maxPolls]
    /\ ctl = <<>>

Init == Fresh(MaxOps, pollRounds)

-----------------------------------------------------------------------------
(* Outside events: a signal, a kill, a Chrome that ends or does not come up,
   a file write that fails *)

\* the outcomes an operation that may fail has left: TRUE is success
Outcomes == IF events < limits.events THEN BOOLEAN ELSE {TRUE}

\* one more outside event when the operation failed
Count(ok) == events' = IF ok THEN events ELSE events + 1

-----------------------------------------------------------------------------
(* SessionDaemon.start, lines 175-251 *)

\* what the daemon process does when start() rejects: the process ends
ExitOnStartFailure(dm) == Ended(dm, "exited")

\* server.listen(port, cb) registers cb for 'listening' only; a bind failure
\* is emitted as an 'error' event, which no listener handles: the process dies
UnhandledError(dm) == Ended(dm, "crashed")

\* the port findAvailablePort resolves with; 0 when the bind of startPort
\* fails (the branch for err never runs, see UnhandledError)
findAvailablePort(ds, startPort) ==
    IF PortInUse(ds, startPort) THEN 0 ELSE startPort

\* line 180: what Math.random may draw.  The ports are interchangeable, so a
\* draw returns a port some living process holds or the least that none holds
DebugPortDraws(ds, cs) ==
    LET held == {ds[e].debugPort : e \in {x \in Pids : Alive(ds[x])}}
                \cup {cs[k].port : k \in {x \in Pids : cs[x].state = "running"}}
    IN {p \in DebugPorts :
           \/ p \in held
           \/ \A q \in DebugPorts : q < p => q \in held}

\* lines 180-183: draw the debug port, find the control port
DaemonFindPort(d) ==
    /\ daemons[d].pc = "findPort"
    /\ LET port == findAvailablePort(daemons, ControlPortBase) IN
       IF port = 0
       THEN daemons' = [daemons EXCEPT ![d] = UnhandledError(@)]
       ELSE \E dp \in DebugPortDraws(daemons, chromes) :
              daemons' = [daemons EXCEPT ![d] =
                  [@ EXCEPT !.pc = "launch", !.controlPort = port,
                            !.debugPort = dp]]
    /\ UNCHANGED <<now, files, chromes, clients, created, hist, events, ops>>

\* lines 204-207: the Chrome process of daemon d; it serves DevTools on the
\* debug port only when no other Chrome holds that port
spawnChrome(cs, d, debugPort, up) ==
    [cs EXCEPT ![d] =
        IF up
        THEN [state |-> "running",
              port |-> IF ChromeOnPort(cs, debugPort) = {} THEN debugPort ELSE 0]
        ELSE ExitedChrome]

\* lines 213-217: webSocketDebuggerUrl of whoever answers on the debug port
fetchEndpoint(cs, debugPort) ==
    LET ks == ChromeOnPort(cs, debugPort) IN
    IF ks = {} THEN <<>> ELSE <<debugPort, CHOOSE k \in ks : TRUE>>

\* lines 204-223: spawn Chrome, wait 2 s, fetch the endpoint, connect
DaemonLaunch(d) ==
    /\ daemons[d].pc = "launch"
    /\ \E up \in Outcomes :
         /\ Count(up)
         /\ chromes' = spawnChrome(chromes, d, daemons[d].debugPort, up)
    /\ LET wsEndpoint == fetchEndpoint(chromes', daemons[d].debugPort) IN
       daemons' = [daemons EXCEPT ![d] =
           IF canConnect(chromes', wsEndpoint)
           THEN [@ EXCEPT !.pc = "listen", !.wsEndpoint = wsEndpoint,
                          !.browser = {wsEndpoint[2]}]
           ELSE ExitOnStartFailure(@)]
    /\ UNCHANGED <<now, files, clients, created, hist, ops>>

\* line 226 and 291-294: controlServer.listen(controlPort)
DaemonListen(d) ==
    /\ daemons[d].pc = "listen"
    /\ daemons' = [daemons EXCEPT ![d] =
           IF PortInUse(daemons, @.controlPort)
           THEN UnhandledError(@)
           ELSE [@ EXCEPT !.pc = "create", !.listening = TRUE]]
    /\ UNCHANGED <<now, files, chromes, clients, created, hist, events, ops>>

\* lines 229-233: startMonitoring, then createSession writes the record
\* (without controlPort); the write may fail
DaemonCreate(d) ==
    /\ daemons[d].pc = "create"
    /\ \E ok \in Outcomes :
         /\ Count(ok)
         /\ IF ok
            THEN /\ files' = writeFile(files, daemons[d].sessionName,
                        sessionData(daemons[d].sessionName, daemons[d].wsEndpoint,
                                    d, daemons[d].headless, now))
                 /\ created' = [created EXCEPT ![daemons[d].sessionName] = TRUE]
                 /\ daemons' = [daemons EXCEPT ![d] =
                        [@ EXCEPT !.pc = "update", !.monitorTimer = TRUE,
                                  !.nextTick = now + checkInterval]]
            ELSE /\ daemons' = [daemons EXCEPT ![d] = ExitOnStartFailure(@)]
                 /\ UNCHANGED <<files, created>>
    /\ UNCHANGED <<now, chromes, clients, hist, ops>>

\* line 234, updateSession lines 101-102: read the record back
DaemonUpdateRead(d) ==
    /\ daemons[d].pc = "update"
    /\ LET session == getSession(files, daemons[d].sessionName) IN
       daemons' = [daemons EXCEPT ![d] =
           IF session = <<>>
           THEN [@ EXCEPT !.pc = "running", !.handlers = TRUE]
           ELSE [@ EXCEPT !.pc = "updateWrite", !.session = session]]
    /\ UNCHANGED <<now, files, chromes, clients, created, hist, events, ops>>

\* updateSession lines 104-105 with {controlPort, debugPort}, then lines
\* 243-244 register the signal handlers; the write may fail
DaemonUpdateWrite(d) ==
    /\ daemons[d].pc = "updateWrite"
    /\ \E ok \in Outcomes :
         /\ Count(ok)
         /\ IF ok
            THEN /\ files' = writeFile(files, daemons[d].sessionName,
                        merge(daemons[d].session[1],
                              [controlPort |-> daemons[d].controlPort,
                               debugPort |-> daemons[d].debugPort]))
                 /\ daemons' = [daemons EXCEPT ![d] =
                        [@ EXCEPT !.pc = "running", !.handlers = TRUE,
                                  !.session = <<>>]]
            ELSE /\ daemons' = [daemons EXCEPT ![d] = ExitOnStartFailure(@)]
                 /\ UNCHANGED files
    /\ UNCHANGED <<now, chromes, clients, created, hist, ops>>

-----------------------------------------------------------------------------
(* The Running daemon: control server, monitor timer, shutdown *)

\* the characters String.prototype.trim removes, as far as messages have them
Whitespace == {" ", "\n"}

\* data.toString().trim(): a message is a sequence of tokens
RECURSIVE trim(_)
trim(message) ==
    IF message = <<>> THEN <<>>
    ELSE IF message[1] \in Whitespace THEN trim(Tail(message))
    ELSE IF message[Len(message)] \in Whitespace
    THEN trim(SubSeq(message, 1, Len(message) - 1))
    ELSE message

\* socket.write('ping\n') of pingDaemon, line 480
PingMessage == <<"ping", "\n">>

\* a faulty variant: whatever is not a ping is taken for a status request
requestLoose(message) ==
    IF trim(message) = <<"ping">> THEN "ping" ELSE "status"

\* lines 275-288: the branch the 'data' handler takes on a chunk
request(message) ==
    IF trim(message) = <<"ping">> THEN "ping"
    ELSE IF trim(message) = <<"status">> THEN "status"
    ELSE "ignored"

\* the greater of two numbers
Max(a, b) == IF a >= b THEN a ELSE b

\* a faulty variant: the status object without the clamp at 0
statusNoClamp(dm, t) ==
    [active |-> TRUE, lastActivity |-> dm.lastActivity,
     timeUntilShutdown |-> timeoutMs - (t - dm.lastActivity)]

\* lines 281-285: the status object; JSON.stringify keeps the boolean and
\* the two integers as they are
status(dm, t) ==
    [active |-> TRUE, lastActivity |-> dm.lastActivity,
     timeUntilShutdown |-> Max(0, timeoutMs - (t - dm.lastActivity))]

\* the chunks a peer other than pingDaemon sends: status requests, texts the
\* handler does not know, two requests that arrive as one chunk
RawMessages ==
    {<<"status", "\n">>, <<" ", "status">>, <<"STATUS", "\n">>, <<"x">>, <<>>,
     <<"ping", "\n", "ping", "\n">>, <<"status", "\n", "status", "\n">>}

\* lines 274-288: the 'data' handler on a chunk that is not a ping; the
\* answer, if any, is written to the socket of the peer
DaemonData(d, message) ==
    /\ daemons[d].pc = "running"
    /\ daemons[d].listening
    /\ daemons[d].req = <<>>
    /\ ctl = <<>>
    /\ request(message) # "ping"
    /\ ctl' = <<[daemon |-> d, message |-> message,
                 reply |-> IF request(message) = "status"
                           THEN <<status(daemons[d], now)>>
                           ELSE <<>>,
                 answers |-> IF request(message) = "status" THEN 1 ELSE 0]>>
    /\ UNCHANGED <<now, files, daemons, chromes, clients, created, pongAt, calledAt,
                   stopped, storeRet, limits, events, ops>>

\* answers the model lets the daemon write on one connection
MaxAnswers == 2

\* lines 274-288 again: the peer sends another chunk on the connection it
\* holds open; the 'data' listener stays registered and the handler never
\* calls socket.end(), so the chunk is handled like the first
DaemonDataAgain(d, message) ==
    /\ daemons[d].pc \in {"running", "closing"}
    /\ daemons[d].req = <<>>
    /\ ctl # <<>>
    /\ ctl[1].daemon = d
    /\ ctl[1].answers < MaxAnswers
    /\ request(message) # "ping"
    /\ ctl' = <<[daemon |-> d, message |-> message,
                 reply |-> IF request(message) = "status"
                           THEN <<status(daemons[d], now)>>
                           ELSE <<>>,
                 answers |-> IF request(message) = "status"
                             THEN ctl[1].answers + 1
                             ELSE ctl[1].answers]>>
    /\ UNCHANGED <<now, files, daemons, chromes, clients, created, pongAt, calledAt,
                   stopped, storeRet, limits, events, ops>>

\* the peer has read what the daemon wrote, or given up, and closes
PeerClose ==
    /\ ctl # <<>>
    /\ ctl' = <<>>
    /\ UNCHANGED <<now, files, daemons, chromes, clients, created, pongAt, calledAt,
                   stopped, storeRet, limits, events, ops>>

\* a faulty variant: the ping handler answers but does not set lastActivity
DaemonPingReadStale(d, c) ==
    /\ daemons[d].pc \in {"running", "closing"}
    /\ daemons[d].req = <<>>
    /\ c \in daemons[d].conns
    /\ request(PingMessage) = "ping"
    /\ daemons' = [daemons EXCEPT ![d] =
           [@ EXCEPT !.req = <<c>>, !.conns = @ \ {c},
                     !.session = getSession(files, daemons[d].sessionName)]]
    /\ UNCHANGED <<now, files, chromes, clients, created, hist, events, ops>>

\* a faulty variant: a ping puts a daemon that shuts down back to Running
DaemonPingReadRevive(d, c) ==
    /\ daemons[d].pc \in {"running", "closing"}
    /\ daemons[d].req = <<>>
    /\ c \in daemons[d].conns
    /\ request(PingMessage) = "ping"
    /\ daemons' = [daemons EXCEPT ![d] =
           [@ EXCEPT !.pc = "running", !.lastActivity = now, !.req = <<c>>,
                     !.conns = @ \ {c},
                     !.session = getSession(files, daemons[d].sessionName)]]
    /\ UNCHANGED <<now, files, chromes, clients, created, hist, events, ops>>

\* updateActivity line 299 and updateSession line 101: the 'data' handler of
\* a connection that sent "ping" sets lastActivity and reads the record.  An
\* open connection is served also after controlServer.close().
DaemonPingRead(d, c) ==
    /\ daemons[d].pc \in {"running", "closing"}
    /\ daemons[d].req = <<>>
    /\ c \in daemons[d].conns
    /\ request(PingMessage) = "ping"
    /\ daemons' = [daemons EXCEPT ![d] =
           [@ EXCEPT !.lastActivity = now, !.req = <<c>>,
                     !.conns = @ \ {c},
                     !.session = getSession(files, daemons[d].sessionName)]]
    /\ UNCHANGED <<now, files, chromes, clients, created, hist, events, ops>>

\* an exception thrown inside the 'data' handler: nothing catches it (no
\* try/catch in lines 274-288 nor in updateActivity), the process dies
ThrowInHandler(dm) == Ended([dm EXCEPT !.trigger = "ping"], "crashed")

\* updateSession lines 102-106 with {lastActivity}, then socket.write('pong').
\* Without a record updateSession returns false and nothing is written; the
\* writeFileSync of line 105 may throw.
DaemonPingWrite(d) ==
    /\ daemons[d].pc \in {"running", "closing"}
    /\ daemons[d].req # <<>>
    /\ LET c == daemons[d].req[1] IN
       \E ok \in IF daemons[d].session = <<>> THEN {TRUE} ELSE Outcomes :
         /\ Count(ok)
         /\ IF ok
            THEN /\ files' = IF daemons[d].session = <<>>
                             THEN files
                             ELSE writeFile(files, daemons[d].sessionName,
                                      merge(daemons[d].session[1],
                                            [lastActivity |-> toISOString(now)]))
                 /\ clients' = IF clients[c].pc = "pingWait" /\ clients[c].conn = d
                               THEN [clients EXCEPT ![c].reply = "pong"]
                               ELSE clients
                 /\ daemons' = [daemons EXCEPT ![d] =
                        [@ EXCEPT !.req = <<>>, !.session = <<>>]]
                 /\ pongAt' = [pongAt EXCEPT ![d] = now]
            ELSE /\ daemons' = [daemons EXCEPT ![d] = ThrowInHandler(@)]
                 /\ UNCHANGED <<files, clients, pongAt>>
    /\ UNCHANGED <<now, chromes, created, calledAt, stopped, storeRet, limits, ctl, ops>>

\* a faulty variant: shutdown leaves the control server listening
shutdownListening(dm) ==
    [dm EXCEPT !.pc = "closing", !.monitorTimer = FALSE, !.shutdowns = @ + 1]

\* shutdown lines 321-336: clear the timer, close the listener, call
\* browser.close() and wait for it; `shutdowns` counts the calls that ran
\* these lines
shutdown(dm) ==
    [dm EXCEPT !.pc = "closing", !.monitorTimer = FALSE, !.listening = FALSE,
               !.shutdowns = @ + 1]

\* browser.close(): the Chrome process behind the connection exits
closeBrowser(cs, browser) ==
    [k \in Pids |-> IF k \in browser /\ cs[k].state = "running"
                    THEN ExitedChrome
                    ELSE cs[k]]

\* a faulty variant: the monitor allows one more interval of idleness
idleExpiredLate(idleTime) == idleTime > timeoutMs + checkInterval

\* idleTime > this.timeoutMs
idleExpired(idleTime) == idleTime > timeoutMs

\* the setInterval callback of startMonitoring, lines 308-317
MonitorTick(d) ==
    /\ daemons[d].pc = "running"
    /\ daemons[d].monitorTimer
    /\ daemons[d].req = <<>>
    /\ daemons[d].nextTick <= now
    /\ LET idleTime == now - daemons[d].lastActivity IN
       IF idleExpired(idleTime)
       THEN /\ daemons' = [daemons EXCEPT ![d] =
                   [shutdown(@) EXCEPT !.trigger = "idle"]]
            /\ chromes' = closeBrowser(chromes, daemons[d].browser)
       ELSE /\ daemons' = [daemons EXCEPT ![d].nextTick = @ + checkInterval]
            /\ UNCHANGED chromes
    /\ UNCHANGED <<now, files, clients, created, hist, events, ops>>

\* SIGTERM or SIGINT: shutdown() once the handlers of lines 243-244 are
\* registered, the default disposition (the process dies) before that
Signal(d) ==
    /\ events < limits.events
    /\ Alive(daemons[d])
    /\ daemons[d].pc # "closing"
    /\ daemons[d].req = <<>>
    /\ IF daemons[d].handlers
       THEN /\ daemons' = [daemons EXCEPT ![d] =
                   [shutdown(@) EXCEPT !.trigger = "signal"]]
            /\ chromes' = closeBrowser(chromes, daemons[d].browser)
       ELSE /\ daemons' = [daemons EXCEPT ![d] = Ended(@, "killed")]
            /\ UNCHANGED chromes
    /\ events' = events + 1
    /\ UNCHANGED <<now, files, clients, created, hist, ops>>

\* SIGTERM or SIGINT while shutdown() awaits the browser: the handler calls
\* shutdown() again, which clears the cleared timer, closes the closed
\* listener and awaits browser.close() as well
SignalAgain(d) ==
    /\ events < limits.events
    /\ daemons[d].pc = "closing"
    /\ daemons[d].req = <<>>
    /\ daemons' = [daemons EXCEPT ![d] = [shutdown(@) EXCEPT !.trigger = @]]
    /\ chromes' = closeBrowser(chromes, daemons[d].browser)
    /\ events' = events + 1
    /\ UNCHANGED <<now, files, clients, created, hist, ops>>

\* shutdown lines 342-347, after browser.close() settled: delete the record
\* of the session name, process.exit(0)
DaemonShutdownFinish(d) ==
    /\ daemons[d].pc = "closing"
    /\ daemons[d].req = <<>>
    /\ files' = deleteSession(files, daemons[d].sessionName)
    /\ created' = [created EXCEPT ![daemons[d].sessionName] = FALSE]
    /\ daemons' = [daemons EXCEPT ![d] = Ended(@, "exited")]
    /\ UNCHANGED <<now, chromes, clients, hist, events, ops>>

\* SIGKILL: the daemon dies without cleanup; its Chrome child is not signalled
Kill(d) ==
    /\ events < limits.events
    /\ Alive(daemons[d])
    /\ daemons' = [daemons EXCEPT ![d] = Ended(@, "killed")]
    /\ events' = events + 1
    /\ UNCHANGED <<now, files, chromes, clients, created, hist, ops>>

\* a Chrome process ends on its own account (crash, kill, window closed)
ChromeExit(k) ==
    /\ events < limits.events
    /\ chromes[k].state = "running"
    /\ chromes' = [chromes EXCEPT ![k] = ExitedChrome]
    /\ events' = events + 1
    /\ UNCHANGED <<now, files, daemons, clients, created, hist, ops>>

\* time passes: timers that are due fire first, handlers run to completion
Advance ==
    /\ now + ClockStep <= MaxTime
    /\ ctl = <<>>
    /\ \A d \in Pids :
         /\ daemons[d].req = <<>>
         /\ (daemons[d].pc = "running" /\ daemons[d].monitorTimer)
               => daemons[d].nextTick > now
    /\ now' = now + ClockStep
    /\ UNCHANGED <<files, daemons, chromes, clients, created, hist, events, ops>>

-----------------------------------------------------------------------------
(* WebSourceBrowser: the client operations.  The synchronous stretch of code
   up to the next await is one step. *)

\* the operation of the client ends: it returned, or threw the error `result`
Done(cl, result) ==
    [cl EXCEPT !.pc = "done", !.result = result, !.probe = <<>>,
               !.attempts = 0, !.conn = 0, !.reply = "none"]

\* the command line client: the process ends with the operation, the next
\* invocation constructs a new WebSourceBrowser
ClientReturn(c) ==
    /\ clients[c].pc = "done"
    /\ clients' = [clients EXCEPT ![c] = NewClient]
    /\ UNCHANGED <<now, files, daemons, chromes, created, hist, events, ops>>

\* an 'error' event on a socket of the control server: the connection
\* callback of lines 274-289 registers a 'data' listener and no 'error'
\* listener, so the event is thrown and the process dies
SocketError(dm) == Ended([dm EXCEPT !.trigger = "reset"], "crashed")

\* the client process crashes, is killed or exits in the middle of an
\* operation; the system closes its sockets.  A socket that holds the pong
\* unread is closed with a reset, which the daemon's socket may report as an
\* 'error' event (read ECONNRESET); any other close is an orderly end.
ClientCrash(c) ==
    /\ events < limits.events
    /\ clients[c].pc # "idle"
    /\ events' = events + 1
    /\ clients' = [clients EXCEPT ![c] = NewClient]
    /\ IF /\ clients[c].pc = "pingWait"
          /\ clients[c].reply = "pong"
          /\ Alive(daemons[clients[c].conn])
       THEN \E reset \in BOOLEAN :
              daemons' = IF reset
                         THEN [daemons EXCEPT ![clients[c].conn] = SocketError(@)]
                         ELSE daemons
       ELSE UNCHANGED daemons
    /\ UNCHANGED <<now, files, chromes, created, hist, ops>>

\* isSessionActive lines 146-156: false without a record, else connect to
\* the browser of the record and disconnect
isSessionActive(cs, session) ==
    /\ session # <<>>
    /\ canConnect(cs, session[1].wsEndpoint)

\* a faulty variant: startSession replaces the session whatever the probe says
afterIsActiveReplace(cl, isActive) ==
    CASE cl.op = "start" -> [cl EXCEPT !.pc = "startDelete"]
      [] cl.op = "connect" ->
           IF isActive THEN [cl EXCEPT !.pc = "attach"]
                       ELSE [cl EXCEPT !.pc = "staleDelete"]
      [] OTHER ->
           IF isActive THEN Done(cl, "active") ELSE Done(cl, "inactive")

\* the caller's branch on the answer: startSession lines 371-377,
\* connectToSession lines 432-435, listSessions line 532
afterIsActive(cl, isActive) ==
    CASE cl.op = "start" ->
           IF isActive THEN Done(cl, "AlreadyActive")
                       ELSE [cl EXCEPT !.pc = "startDelete"]
      [] cl.op = "connect" ->
           IF isActive THEN [cl EXCEPT !.pc = "attach"]
                       ELSE [cl EXCEPT !.pc = "staleDelete"]
      [] OTHER ->
           IF isActive THEN Done(cl, "active") ELSE Done(cl, "inactive")

\* a faulty variant: a probe that fails removes the record it probed
ClientActiveProbeClean(c) ==
    /\ clients[c].pc = "probe"
    /\ clients' = [clients EXCEPT ![c] =
           afterIsActive(@, isSessionActive(chromes, clients[c].probe))]
    /\ files' = IF isSessionActive(chromes, clients[c].probe)
                THEN files
                ELSE deleteSession(files, clients[c].name)
    /\ UNCHANGED <<now, daemons, chromes, created, hist, events, ops>>

\* lines 150-152: the puppeteer.connect of isSessionActive settles
ClientActiveProbe(c) ==
    /\ clients[c].pc = "probe"
    /\ clients' = [clients EXCEPT ![c] =
           afterIsActive(@, isSessionActive(chromes, clients[c].probe))]
    /\ UNCHANGED <<now, files, daemons, chromes, created, hist, events, ops>>

(* startSession, lines 365-418 *)

\* the process ids no process has had
FreePids(ds) == {d \in Pids : ds[d].pc = "none"}

\* lines 384-396: spawn the detached daemon process (headless by default)
spawnDaemon(ds, d, sessionName, t) ==
    [ds EXCEPT ![d] = NewDaemon(sessionName, TRUE, t)]

\* lines 369-370: sessionExists, then getSession of isSessionActive; without
\* a session file the daemon is spawned at once
ClientStartBegin(c, sessionName) ==
    /\ MayBegin(c)
    /\ ops' = ops + 1
    /\ IF sessionExists(files, sessionName)
       THEN /\ clients' = [clients EXCEPT ![c] =
                   [Seen(Begin(@, "start", sessionName),
                         getSession(files, sessionName)) EXCEPT
                        !.pc = "probe",
                        !.probe = getSession(files, sessionName)]]
            /\ UNCHANGED daemons
       ELSE \E d \in FreePids(daemons) :
              /\ \A e \in FreePids(daemons) : d <= e
              /\ daemons' = spawnDaemon(daemons, d, sessionName, now)
              /\ clients' = [clients EXCEPT ![c] =
                     [Begin(@, "start", sessionName) EXCEPT
                          !.pc = "poll", !.spawned = {d}]]
    /\ UNCHANGED <<now, files, chromes, created, hist, events>>

\* lines 375-396: clean up the stale session, spawn the daemon
ClientStartDelete(c) ==
    /\ clients[c].pc = "startDelete"
    /\ files' = deleteSession(files, clients[c].name)
    /\ created' = [created EXCEPT ![clients[c].name] = FALSE]
    /\ \E d \in FreePids(daemons) :
         /\ \A e \in FreePids(daemons) : d <= e
         /\ daemons' = spawnDaemon(daemons, d, clients[c].name, now)
         /\ clients' = [clients EXCEPT ![c] =
                [@ EXCEPT !.pc = "poll", !.spawned = {d}, !.probe = <<>>]]
    /\ UNCHANGED <<now, chromes, hist, events, ops>>

\* a faulty variant: the poll loop takes any record for the ready session
ClientPollAnyRecord(c) ==
    /\ clients[c].pc = "poll"
    /\ LET session == getSession(files, clients[c].name) IN
       clients' = [clients EXCEPT ![c] =
           IF @.attempts >= limits.polls
           THEN Done(@, "StartTimeout")
           ELSE IF session # <<>>
           THEN Done([@ EXCEPT !.session = session], "started")
           ELSE [@ EXCEPT !.attempts = @ + 1]]
    /\ UNCHANGED <<now, files, daemons, chromes, created, hist, events, ops>>

\* lines 401-413: one round of the poll loop, or the timeout after the last
ClientPoll(c) ==
    /\ clients[c].pc = "poll"
    /\ LET session == getSession(files, clients[c].name) IN
       clients' = [clients EXCEPT ![c] =
           IF @.attempts >= limits.polls
           THEN Done(@, "StartTimeout")
           ELSE IF hasControlPort(session)
           THEN Done([@ EXCEPT !.session = session], "started")
           ELSE [@ EXCEPT !.attempts = @ + 1]]
    /\ UNCHANGED <<now, files, daemons, chromes, created, hist, events, ops>>

(* pingDaemon, lines 462-497 *)

\* lines 469-481 and 492-495: connect and send "ping", or the 'error' event
ClientPingConnect(c) ==
    /\ clients[c].pc = "pingConnect"
    /\ LET port == clients[c].session[1].controlPort IN
       IF PortInUse(daemons, port)
       THEN \E d \in Pids :
              /\ Alive(daemons[d]) /\ daemons[d].listening
              /\ daemons[d].controlPort = port
              /\ daemons' = [daemons EXCEPT ![d].conns = @ \cup {c}]
              /\ clients' = [clients EXCEPT ![c] =
                     [@ EXCEPT !.pc = "pingWait", !.conn = d, !.reply = "none"]]
       ELSE /\ clients' = [clients EXCEPT ![c] =
                   Done([@ EXCEPT !.ping = "refused"], "ECONNREFUSED")]
            /\ UNCHANGED daemons
    /\ UNCHANGED <<now, files, chromes, created, hist, events, ops>>

\* what follows a resolved ping: in connectToSession line 431 with the
\* getSession of isSessionActive, else the caller
afterPong(cl, fs) ==
    IF cl.op = "connect"
    THEN [cl EXCEPT !.pc = "probe", !.probe = getSession(fs, cl.name),
                    !.conn = 0, !.reply = "none", !.ping = "pong"]
    ELSE Done([cl EXCEPT !.ping = "pong"], "pong")

\* lines 483-490: 'pong' arrived
ClientPingPong(c) ==
    /\ clients[c].pc = "pingWait"
    /\ clients[c].reply = "pong"
    /\ clients' = [clients EXCEPT ![c] = afterPong(@, files)]
    /\ UNCHANGED <<now, files, daemons, chromes, created, hist, events, ops>>

\* lines 472-477: no pong within 5 s, the peer being gone
ClientPingTimeout(c) ==
    /\ clients[c].pc = "pingWait"
    /\ clients[c].reply # "pong"
    /\ ~Alive(daemons[clients[c].conn])
    /\ clients' = [clients EXCEPT ![c] =
           Done([@ EXCEPT !.ping = "timeout"], "PingTimeout")]
    /\ UNCHANGED <<now, files, daemons, chromes, created, hist, events, ops>>

\* a caller of pingDaemon alone; lines 463-466 look the control port up
ClientPingBegin(c, sessionName) ==
    /\ MayBegin(c)
    /\ ops' = ops + 1
    /\ LET session == getSession(files, sessionName) IN
       clients' = [clients EXCEPT ![c] =
           IF hasControlPort(session)
           THEN [Seen(Begin(@, "ping", sessionName), session) EXCEPT
                     !.pc = "pingConnect"]
           ELSE Done(Begin(@, "ping", sessionName), "NoControlPort")]
    /\ UNCHANGED <<now, files, daemons, chromes, created, hist, events>>

(* pingDaemon with a peer that does what it likes on the control port: the
   promise, the timer and the socket events of lines 468-496 one by one *)

\* the chunks a peer may write to the socket of pingDaemon
PeerChunks ==
    {<<"pong", "\n">>, <<"pong">>, <<" ", "pong", "\n">>, <<"PONG", "\n">>,
     <<"pong", "\n", "pong", "\n">>, <<"x">>, <<>>}

\* a faulty variant: any chunk is taken for the pong
isPongAny(data) == data = data

\* line 484: data.toString().trim() === 'pong'
isPong(data) == trim(data) = <<"pong">>

\* resolve() or reject(): a promise that is settled stays as it is
settle(pd, state, why) ==
    IF pd.state = "pending" THEN [pd EXCEPT !.state = state, !.why = why] ELSE pd

\* lines 463-472: the record has a control port; createConnection, setTimeout
PingStart(c, sessionName) ==
    /\ MayBegin(c)
    /\ hasControlPort(getSession(files, sessionName))
    /\ ops' = ops + 1
    /\ clients' = [clients EXCEPT ![c] =
           [Begin(@, "pingDaemon", sessionName) EXCEPT
                !.pc = "pinging",
                !.pd = [NoPing EXCEPT !.state = "pending", !.timer = TRUE,
                                      !.sock = "connecting"]]]
    /\ UNCHANGED <<now, files, daemons, chromes, created, hist, events>>

\* lines 479-481: 'connect', the ping is written
PingOnConnect(c) ==
    /\ clients[c].pd.sock = "connecting"
    /\ clients' = [clients EXCEPT ![c].pd.sock = "open"]
    /\ UNCHANGED <<now, files, daemons, chromes, created, hist, events, ops>>

\* lines 483-490: 'data'
PingOnData(c, data) ==
    /\ clients[c].pd.sock = "open"
    /\ clients' = [clients EXCEPT ![c].pd =
           IF isPong(data)
           THEN [settle(@, "resolved", "none") EXCEPT
                     !.responded = TRUE, !.timer = FALSE, !.sock = "ended",
                     !.data = data, !.pong = @ \/ trim(data) = <<"pong">>]
           ELSE [@ EXCEPT !.data = data]]
    /\ UNCHANGED <<now, files, daemons, chromes, created, hist, events, ops>>

\* lines 492-495: 'error' (connection refused, reset), the socket is gone
PingOnError(c) ==
    /\ clients[c].pd.sock \in {"connecting", "open", "ended"}
    /\ clients' = [clients EXCEPT ![c].pd =
           [settle(@, "rejected", "error") EXCEPT
                !.timer = FALSE, !.sock = "destroyed"]]
    /\ UNCHANGED <<now, files, daemons, chromes, created, hist, events, ops>>

\* lines 472-477: the timer of 5 s fires
PingOnTimeout(c) ==
    /\ clients[c].pd.timer
    /\ clients' = [clients EXCEPT ![c].pd =
           IF ~@.responded
           THEN [settle(@, "rejected", "timeout") EXCEPT
                     !.timer = FALSE, !.sock = "destroyed"]
           ELSE [@ EXCEPT !.timer = FALSE]]
    /\ UNCHANGED <<now, files, daemons, chromes, created, hist, events, ops>>

\* the peer ends the connection: pingDaemon has no 'end' or 'close' listener
PingOnEnd(c) ==
    /\ clients[c].pd.sock \in {"open", "ended"}
    /\ clients' = [clients EXCEPT ![c].pd.sock = "closed"]
    /\ UNCHANGED <<now, files, daemons, chromes, created, hist, events, ops>>

\* the caller's await of line 429 continues once the promise is settled
PingAwait(c) ==
    /\ clients[c].pc = "pinging"
    /\ clients[c].pd.state \in {"resolved", "rejected"}
    /\ clients' = [clients EXCEPT ![c] =
           Done(@, IF @.pd.state = "resolved" THEN "pong" ELSE "PingRejected")]
    /\ UNCHANGED <<now, files, daemons, chromes, created, hist, events, ops>>

(* connectToSession, lines 420-460 *)

\* lines 421-429 and 463-466: no record, or no control port in it, or ping
ClientConnectBegin(c, sessionName) ==
    /\ MayBegin(c)
    /\ ops' = ops + 1
    /\ LET session == getSession(files, sessionName) IN
       clients' = [clients EXCEPT ![c] =
           IF session = <<>>
           THEN Done(Begin(@, "connect", sessionName), "NotFound")
           ELSE IF ~hasControlPort(session)
           THEN Done(Seen(Begin(@, "connect", sessionName), session), "NoControlPort")
           ELSE [Seen(Begin(@, "connect", sessionName), session) EXCEPT
                     !.pc = "pingConnect"]]
    /\ UNCHANGED <<now, files, daemons, chromes, created, hist, events>>

\* lines 433-434: the probe failed
ClientStaleDelete(c) ==
    /\ clients[c].pc = "staleDelete"
    /\ files' = deleteSession(files, clients[c].name)
    /\ created' = [created EXCEPT ![clients[c].name] = FALSE]
    /\ clients' = [clients EXCEPT ![c] = Done(@, "Stale")]
    /\ UNCHANGED <<now, daemons, chromes, hist, events, ops>>

\* lines 437-459: attach to the browser of the record read at line 421;
\* puppeteer.connect, browser.pages or newPage may throw also while the
\* browser runs (protocol error, timeout); the catch deletes the record
ClientAttach(c) ==
    /\ clients[c].pc = "attach"
    /\ \E ok \in Outcomes :
         /\ Count(ok)
         /\ IF ok /\ canConnect(chromes, clients[c].session[1].wsEndpoint)
            THEN /\ clients' = [clients EXCEPT ![c] =
                        Done([@ EXCEPT
                                 !.browser = {clients[c].session[1].wsEndpoint[2]},
                                 !.currentSession = clients[c].session], "connected")]
                 /\ UNCHANGED <<files, created>>
            ELSE /\ files' = deleteSession(files, clients[c].name)
                 /\ created' = [created EXCEPT ![clients[c].name] = FALSE]
                 /\ clients' = [clients EXCEPT ![c] = Done(@, "ConnectFailed")]
    /\ UNCHANGED <<now, daemons, chromes, hist, ops>>

(* navigate, refreshPage, analyzeSelectors, executeJavaScript, takeScreenshot,
   viewElement: lines 539-1050 *)

\* the capability calls; the first two end with updateSession({currentUrl})
Calls == {"navigate", "refresh", "selectors", "execute", "screenshot", "view"}

\* the URLs a page reports as window.location.href
Urls == {<<"u1">>}

\* the WebSourceBrowser object is attached to a session: this.currentSession
\* is set, so the calls of that session skip connectToSession (lines 543-545)
Attached(cl) ==
    /\ cl.pc = "done"
    /\ cl.currentSession # <<>>
    /\ cl.currentSession[1].name = cl.name
    /\ cl.result \in {"connected", "ok", "CapabilityError"}

\* lines 546-634 and the like, after the connectToSession of lines 543-545
\* returned or was skipped: the call on the page succeeds or throws
\* (navigation timeout, script exception, missing element, I/O failure,
\* browser gone); navigate and refreshPage then call updateSession with
\* {currentUrl} (lines 620, 671), whose getSession of line 101 reads the
\* record; without a record nothing is written
ClientCall(c, call, url) ==
    /\ Attached(clients[c])
    /\ \E ok \in Outcomes :
         /\ Count(ok)
         /\ LET works == ok /\ canConnect(chromes, clients[c].session[1].wsEndpoint)
                session == getSession(files, clients[c].name)
            IN /\ clients' = [clients EXCEPT ![c] =
                      IF works /\ call \in {"navigate", "refresh"} /\ session # <<>>
                      THEN [@ EXCEPT !.op = call, !.pc = "callWrite",
                                     !.update = <<merge(session[1],
                                                        [currentUrl |-> url])>>]
                      ELSE [@ EXCEPT !.op = call,
                                     !.result = IF works THEN "ok"
                                                         ELSE "CapabilityError"]]
               /\ calledAt' = IF works
                              THEN [calledAt EXCEPT ![clients[c].name] = now]
                              ELSE calledAt
    /\ UNCHANGED <<now, files, daemons, chromes, created, pongAt, stopped, storeRet,
                   limits, ctl, ops>>

\* updateSession lines 104-106 in navigate and refreshPage: the merged record
\* is written to the session file, the call returns
ClientCallWrite(c) ==
    /\ clients[c].pc = "callWrite"
    /\ files' = writeFile(files, clients[c].name, clients[c].update[1])
    /\ clients' = [clients EXCEPT ![c] =
           [@ EXCEPT !.pc = "done", !.result = "ok", !.update = <<>>]]
    /\ UNCHANGED <<now, daemons, chromes, created, hist, events, ops>>

(* cleanup, lines 1076-1084 *)

\* between two commands the client calls cleanup(): this.browser.close()
\* sends Browser.close over the connection puppeteer.connect opened, which
\* ends the browser (disconnect() would leave it running); the handles are
\* dropped, this.currentSession stays
ClientCleanup(c) ==
    /\ clients[c].pc = "done"
    /\ clients[c].browser # {}
    /\ chromes' = closeBrowser(chromes, clients[c].browser)
    /\ clients' = [clients EXCEPT ![c].browser = {}]
    /\ UNCHANGED <<now, files, daemons, created, hist, events, ops>>

(* stopSession, lines 499-525 *)

\* lines 500-503
ClientStopBegin(c, sessionName) ==
    /\ MayBegin(c)
    /\ ops' = ops + 1
    /\ LET session == getSession(files, sessionName) IN
       clients' = [clients EXCEPT ![c] =
           IF session = <<>>
           THEN Done(Begin(@, "stop", sessionName), "NotFound")
           ELSE [Seen(Begin(@, "stop", sessionName), session) EXCEPT
                     !.pc = "stopClose"]]
    /\ UNCHANGED <<now, files, daemons, chromes, created, hist, events>>

\* lines 505-512: connect to the browser and close it, if it answers
ClientStopClose(c) ==
    /\ clients[c].pc = "stopClose"
    /\ chromes' = IF canConnect(chromes, clients[c].session[1].wsEndpoint)
                  THEN closeBrowser(chromes, {clients[c].session[1].wsEndpoint[2]})
                  ELSE chromes
    /\ clients' = [clients EXCEPT ![c].pc = "stopDelete"]
    /\ UNCHANGED <<now, files, daemons, created, hist, events, ops>>

\* lines 515-524: remove the record, drop the own attachment, return
ClientStopDelete(c) ==
    /\ clients[c].pc = "stopDelete"
    /\ files' = deleteSession(files, clients[c].name)
    /\ created' = [created EXCEPT ![clients[c].name] = FALSE]
    /\ clients' = [clients EXCEPT ![c] =
           Done(IF @.currentSession # <<>> /\ @.currentSession[1].name = @.name
                THEN [@ EXCEPT !.browser = {}, !.currentSession = <<>>]
                ELSE @, "stopped")]
    /\ stopped' = stopped \cup {clients[c].session[1].pid}
    /\ UNCHANGED <<now, daemons, chromes, pongAt, calledAt, storeRet, limits, ctl,
                   events, ops>>

(* listSessions, lines 527-537 *)

\* line 528, then isSessionActive of a listed session
ClientListBegin(c) ==
    /\ MayBegin(c)
    /\ ops' = ops + 1
    /\ LET sessions == listSessions(files) IN
       IF sessions = {}
       THEN clients' = [clients EXCEPT ![c] = Done(Begin(@, "list", <<>>), "empty")]
       ELSE \E session \in sessions :
              clients' = [clients EXCEPT ![c] =
                  [Seen(Begin(@, "list", session.name), <<session>>) EXCEPT
                       !.pc = "probe",
                       !.probe = getSession(files, session.name)]]
    /\ UNCHANGED <<now, files, daemons, chromes, created, hist, events>>

-----------------------------------------------------------------------------
(* Spec: clients and daemons of one session name, the clock frozen *)

Next ==
    \/ \E d \in Pids :
         \/ DaemonFindPort(d)
         \/ DaemonLaunch(d)
         \/ DaemonListen(d)
         \/ DaemonCreate(d)
         \/ DaemonUpdateRead(d)
         \/ DaemonUpdateWrite(d)
         \/ DaemonPingWrite(d)
         \/ DaemonShutdownFinish(d)
         \/ Signal(d)
         \/ Kill(d)
         \/ ChromeExit(d)
         \/ \E c \in Clients : DaemonPingRead(d, c)
    \/ \E c \in Clients :
         \/ ClientReturn(c)
         \/ ClientActiveProbe(c)
         \/ ClientStartDelete(c)
         \/ ClientPoll(c)
         \/ ClientPingConnect(c)
         \/ ClientPingPong(c)
         \/ ClientPingTimeout(c)
         \/ ClientStaleDelete(c)
         \/ ClientAttach(c)
         \/ ClientStopClose(c)
         \/ ClientStopDelete(c)
         \/ ClientListBegin(c)
         \/ \E n \in Names :
              \/ ClientStartBegin(c, n)
              \/ ClientPingBegin(c, n)
              \/ ClientConnectBegin(c, n)
              \/ ClientStopBegin(c, n)

Spec == Init /\ [][Next]_vars

-----------------------------------------------------------------------------
(* SpecStart: startSession with all the maxAttempts rounds of its poll loop.
   The client process keeps running: its timers fire and the promises it
   awaits settle, so a step of it that is possible is taken in the end. *)

\* startSession calls of one run of SpecStart, one after the other
MaxStarts == 2

StartClients == {"c1"}

InitStart == Fresh(MaxStarts, maxAttempts)

\* the steps of startSession after its first
StartStep(c) ==
    \/ ClientActiveProbe(c)
    \/ ClientStartDelete(c)
    \/ ClientPoll(c)

NextStart ==
    \/ \E d \in Pids :
         \/ DaemonFindPort(d)
         \/ DaemonLaunch(d)
         \/ DaemonListen(d)
         \/ DaemonCreate(d)
         \/ DaemonUpdateRead(d)
         \/ DaemonUpdateWrite(d)
         \/ DaemonShutdownFinish(d)
         \/ Signal(d)
         \/ Kill(d)
         \/ ChromeExit(d)
    \/ \E c \in StartClients :
         \/ ClientReturn(c)
         \/ StartStep(c)
         \/ \E n \in Names : ClientStartBegin(c, n)

SpecStart ==
    /\ InitStart
    /\ [][NextStart]_vars
    /\ \A c \in StartClients : WF_vars(StartStep(c))

-----------------------------------------------------------------------------
(* SpecIdle: one Running daemon, the clock, the monitor timer and pings *)

\* pings the clients send in one run of SpecIdle
MaxPings == 3

\* the record of a started session: createSession, then the updateSession of
\* line 234
startedRecord(sessionName, wsEndpoint, pid, headless, controlPort, debugPort, t) ==
    merge(sessionData(sessionName, wsEndpoint, pid, headless, t),
          [controlPort |-> controlPort, debugPort |-> debugPort])

\* the client processes that ping in SpecIdle: the daemon serves one request
\* at a time, so pings of two clients are pings of one in some order
IdleClients == {"c1"}

\* the daemon of pid 1 went through start() at time 0 and is Running; the
\* clients begin at most maxOps operations
Started(maxOps) ==
    /\ now = 0
    /\ files = writeFile([f \in FileNames |-> <<>>], S1,
                  startedRecord(S1, <<DebugPortBase, 1>>, 1, TRUE,
                                ControlPortBase, DebugPortBase, 0))
    /\ daemons = [d \in Pids |->
          IF d = 1
          THEN [NewDaemon(S1, TRUE, 0) EXCEPT
                    !.pc = "running", !.controlPort = ControlPortBase,
                    !.debugPort = DebugPortBase,
                    !.wsEndpoint = <<DebugPortBase, 1>>, !.browser = {1},
                    !.monitorTimer = TRUE, !.nextTick = checkInterval,
                    !.listening = TRUE, !.handlers = TRUE]
          ELSE NoDaemon]
    /\ chromes = [d \in Pids |->
          IF d = 1 THEN [state |-> "running", port |-> DebugPortBase]
                   ELSE NoChrome]
    /\ clients = [c \in Clients |-> NewClient]
    /\ created = [n \in StoreNames |-> n = S1]
    /\ pongAt = [d \in Pids |-> 0]
    /\ calledAt = [n \in StoreNames |-> -1]
    /\ stopped = {}
    /\ storeRet = <<"none">>
    /\ events = 0
    /\ ops = 0
    /\ limits = [ops |-> maxOps, events |-> MaxEvents, polls |-> pollRounds]
    /\ ctl = <<>>

InitIdle == Started(MaxPings)

NextIdle ==
    \/ Advance
    \/ \E d \in Pids :
         \/ MonitorTick(d)
         \/ DaemonPingWrite(d)
         \/ DaemonShutdownFinish(d)
         \/ Signal(d)
         \/ SignalAgain(d)
         \/ \E c \in IdleClients : DaemonPingRead(d, c)
    \/ \E c \in IdleClients :
         \/ ClientReturn(c)
         \/ ClientPingConnect(c)
         \/ ClientPingPong(c)
         \/ ClientPingTimeout(c)
         \/ \E n \in Names : ClientPingBegin(c, n)

SpecIdle == InitIdle /\ [][NextIdle]_vars

-----------------------------------------------------------------------------
(* SpecCtl: one Running daemon, the clock, and peers that write to the
   control channel what they like *)

\* pings the clients send in one run of SpecCtl
MaxCtlPings == 1

InitCtl == Started(MaxCtlPings)

NextCtl ==
    \/ Advance
    \/ PeerClose
    \/ \E d \in Pids :
         \/ MonitorTick(d)
         \/ DaemonPingWrite(d)
         \/ DaemonShutdownFinish(d)
         \/ Signal(d)
         \/ \E c \in IdleClients : DaemonPingRead(d, c)
         \/ \E message \in RawMessages : DaemonData(d, message)
         \/ \E message \in RawMessages : DaemonDataAgain(d, message)
    \/ \E c \in IdleClients :
         \/ ClientReturn(c)
         \/ ClientPingConnect(c)
         \/ ClientPingPong(c)
         \/ ClientPingTimeout(c)
         \/ \E n \in Names : ClientPingBegin(c, n)

SpecCtl == InitCtl /\ [][NextCtl]_vars

-----------------------------------------------------------------------------
(* SpecCap: one Running daemon and a client that resolves the session and
   calls the capabilities *)

\* resolutions the client begins in one run of SpecCap
MaxResolves == 2

CapClients == {"c1"}

InitCap == Started(MaxResolves)

NextCap ==
    \/ \E d \in Pids :
         \/ DaemonPingWrite(d)
         \/ Kill(d)
         \/ ChromeExit(d)
         \/ \E c \in CapClients : DaemonPingRead(d, c)
    \/ \E c \in CapClients :
         \/ ClientReturn(c)
         \/ ClientPingConnect(c)
         \/ ClientPingPong(c)
         \/ ClientPingTimeout(c)
         \/ ClientActiveProbe(c)
         \/ ClientStaleDelete(c)
         \/ ClientAttach(c)
         \/ \E n \in Names : ClientConnectBegin(c, n)
         \/ ClientCallWrite(c)
         \/ ClientCleanup(c)
         \/ \E call \in Calls, url \in Urls : ClientCall(c, call, url)

SpecCap == InitCap /\ [][NextCap]_vars

-----------------------------------------------------------------------------
(* SpecTeardown: one Running daemon, the clock, the monitor timer, and a
   client that pings and may die at any step.  The daemon process keeps
   running and time passes: a step of the daemon that is possible is taken
   in the end.  Nothing is assumed of the client. *)

\* pings the client sends in one run of SpecTeardown
MaxTeardownPings == 2

InitTeardown == Started(MaxTeardownPings)

\* the steps of the daemon d
DaemonStep(d) ==
    \/ MonitorTick(d)
    \/ DaemonPingWrite(d)
    \/ DaemonShutdownFinish(d)
    \/ \E c \in IdleClients : DaemonPingRead(d, c)

NextTeardown ==
    \/ Advance
    \/ \E d \in Pids : DaemonStep(d)
    \/ \E c \in IdleClients :
         \/ ClientReturn(c)
         \/ ClientCrash(c)
         \/ ClientPingConnect(c)
         \/ ClientPingPong(c)
         \/ ClientPingTimeout(c)
         \/ \E n \in Names : ClientPingBegin(c, n)

SpecTeardown ==
    /\ InitTeardown
    /\ [][NextTeardown]_vars
    /\ WF_vars(Advance)
    /\ \A d \in Pids : WF_vars(DaemonStep(d))

-----------------------------------------------------------------------------
(* SpecMulti: the session s1 is Running and a client starts sessions of
   either name *)

\* startSession calls of one run of SpecMulti
MaxMultiStarts == 2

MultiClients == {"c1"}

InitMulti == Started(MaxMultiStarts)

NextMulti ==
    \/ \E d \in Pids :
         \/ DaemonFindPort(d)
         \/ DaemonLaunch(d)
         \/ DaemonListen(d)
         \/ DaemonCreate(d)
         \/ DaemonUpdateRead(d)
         \/ DaemonUpdateWrite(d)
         \/ DaemonShutdownFinish(d)
         \/ Signal(d)
         \/ Kill(d)
         \/ ChromeExit(d)
    \/ \E c \in MultiClients :
         \/ ClientReturn(c)
         \/ StartStep(c)
         \/ \E n \in StoreNames : ClientStartBegin(c, n)

SpecMulti == InitMulti /\ [][NextMulti]_vars

-----------------------------------------------------------------------------
(* SpecLong: one Running daemon, the clock, the monitor timer, and a client
   object that resolves the session and then runs commands against it, one
   or many.  A command takes less than a step of the clock: time passes
   between the commands, not inside one. *)

\* resolutions the client begins in one run of SpecLong
MaxLongOps == 1

\* the commands the client of SpecLong runs: one that ends with a write of
\* the record and one that does not
LongCalls == {"navigate", "execute"}

InitLong == Started(MaxLongOps)

\* no client is inside a command: connectToSession returned inside a call
\* that has not yet touched the page, or an operation is under way
ClientsAtRest ==
    \A c \in Clients :
       \/ clients[c].pc = "idle"
       \/ clients[c].pc = "done" /\ clients[c].result # "connected"

\* time passes between the commands
AdvanceAtRest == ClientsAtRest /\ Advance

NextLong ==
    \/ AdvanceAtRest
    \/ \E d \in Pids :
         \/ MonitorTick(d)
         \/ DaemonPingWrite(d)
         \/ DaemonShutdownFinish(d)
         \/ \E c \in CapClients : DaemonPingRead(d, c)
    \/ \E c \in CapClients :
         \/ ClientReturn(c)
         \/ ClientPingConnect(c)
         \/ ClientPingPong(c)
         \/ ClientPingTimeout(c)
         \/ ClientActiveProbe(c)
         \/ ClientStaleDelete(c)
         \/ ClientAttach(c)
         \/ \E n \in Names : ClientConnectBegin(c, n)
         \/ ClientCallWrite(c)
         \/ \E call \in LongCalls, url \in Urls : ClientCall(c, call, url)

SpecLong == InitLong /\ [][NextLong]_vars

-----------------------------------------------------------------------------
(* SpecRace: one Running daemon, the clock, the monitor timer, a client that
   resolves the session and navigates, and a client that pings.  The read
   and the write of each updateSession are steps of their own, so those of
   the daemon and of a client interleave. *)

\* operations the clients begin in one run of SpecRace
MaxRaceOps == 2

\* the command of SpecRace: navigate, which ends with updateSession
RaceCalls == {"navigate"}

\* monitor intervals a run of SpecRace lasts
RaceIntervals == 1

InitRace == Started(MaxRaceOps)

\* time passes between the commands, up to the end of the run
AdvanceRace == now + ClockStep <= RaceIntervals * checkInterval /\ AdvanceAtRest

NextRace ==
    \/ AdvanceRace
    \/ \E d \in Pids :
         \/ MonitorTick(d)
         \/ Signal(d)
         \/ DaemonPingWrite(d)
         \/ DaemonShutdownFinish(d)
         \/ \E c \in Clients : DaemonPingRead(d, c)
    \/ \E c \in Clients :
         \/ ClientReturn(c)
         \/ ClientPingConnect(c)
         \/ ClientPingPong(c)
         \/ ClientPingTimeout(c)
         \/ ClientActiveProbe(c)
         \/ ClientStaleDelete(c)
         \/ ClientAttach(c)
         \/ ClientCallWrite(c)
         \/ \E n \in Names : ClientConnectBegin(c, n)
         \/ \E n \in Names : ClientPingBegin(c, n)
         \/ \E call \in RaceCalls, url \in Urls : ClientCall(c, call, url)

SpecRace == InitRace /\ [][NextRace]_vars

-----------------------------------------------------------------------------
(* SpecStop: one Running daemon, the clock, the monitor timer, and clients
   that stop the session.  The daemon process keeps running and time passes:
   a step of the daemon that is possible is taken in the end. *)

\* stopSession calls of one run of SpecStop
MaxStops == 2

InitStop == Started(MaxStops)

\* what the daemon d does by itself
TimerStep(d) ==
    \/ MonitorTick(d)
    \/ DaemonShutdownFinish(d)

NextStop ==
    \/ Advance
    \/ \E d \in Pids :
         \/ TimerStep(d)
         \/ Signal(d)
    \/ \E c \in Clients :
         \/ ClientReturn(c)
         \/ ClientStopClose(c)
         \/ ClientStopDelete(c)
         \/ \E n \in Names : ClientStopBegin(c, n)

SpecStop ==
    /\ InitStop
    /\ [][NextStop]_vars
    /\ WF_vars(Advance)
    /\ \A d \in Pids : WF_vars(TimerStep(d))

-----------------------------------------------------------------------------
(* SpecPing: pingDaemon against an arbitrary peer.  The client process keeps
   running, so its timer fires if it stays armed. *)

\* pingDaemon calls of one run of SpecPing
MaxPingCalls == 2

PingClients == Clients

InitPing == Started(MaxPingCalls)

NextPing ==
    \E c \in PingClients :
       \/ ClientReturn(c)
       \/ PingOnConnect(c)
       \/ PingOnError(c)
       \/ PingOnTimeout(c)
       \/ PingOnEnd(c)
       \/ PingAwait(c)
       \/ \E data \in PeerChunks : PingOnData(c, data)
       \/ \E n \in Names : PingStart(c, n)

SpecPing ==
    /\ InitPing
    /\ [][NextPing]_vars
    /\ \A c \in PingClients : WF_vars(PingOnTimeout(c))

-----------------------------------------------------------------------------
(* SpecStore: the SessionManager calls of one process, one call per step *)

\* the endpoints a caller passes to createSession
StoreEndpoints == {<<DebugPortBase, 1>>, <<DebugPortBase + 1, 2>>}

\* the updates a caller passes to updateSession: lines 234-237, 109-111, 620
StoreUpdates ==
    {[controlPort |-> ControlPortBase, debugPort |-> DebugPortBase],
     [lastActivity |-> toISOString(now)],
     [currentUrl |-> <<"u1">>]}

\* no session file; one browser answers on its debug port, another is gone
InitStore ==
    /\ now = 0
    /\ files = [f \in FileNames |-> <<>>]
    /\ daemons = [d \in Pids |-> NoDaemon]
    /\ chromes = [d \in Pids |->
          IF d = 1 THEN [state |-> "running", port |-> DebugPortBase]
                   ELSE ExitedChrome]
    /\ clients = [c \in Clients |-> NewClient]
    /\ created = [n \in StoreNames |-> FALSE]
    /\ pongAt = [d \in Pids |-> 0]
    /\ calledAt = [n \in StoreNames |-> -1]
    /\ stopped = {}
    /\ storeRet = <<"none">>
    /\ events = 0
    /\ ops = 0
    /\ limits = [ops |-> 0, events |-> 0, polls |-> pollRounds]
    /\ ctl = <<>>

\* what a call of SpecStore leaves alone
StoreRest ==
    <<now, daemons, chromes, clients, pongAt, calledAt, stopped, limits, ctl, events,
      ops>>

\* createSession, lines 70-84
StoreCreate(sessionName, wsEndpoint, pid, headless) ==
    /\ files' = writeFile(files, sessionName,
                    sessionData(sessionName, wsEndpoint, pid, headless, now))
    /\ created' = [created EXCEPT ![sessionName] = TRUE]
    /\ storeRet' = <<"createSession", sessionName>>
    /\ UNCHANGED StoreRest

\* updateSession, lines 100-107
StoreUpdate(sessionName, updates) ==
    /\ files' = updateSession(files, sessionName, updates)
    /\ storeRet' = <<"updateSession", sessionName,
                     getSession(files, sessionName) # <<>>, updates>>
    /\ UNCHANGED <<created, StoreRest>>

\* sessionExists, lines 66-68
StoreExists(sessionName) ==
    /\ storeRet' = <<"sessionExists", sessionName, sessionExists(files, sessionName)>>
    /\ UNCHANGED <<files, created, StoreRest>>

\* getSession, lines 86-98
StoreGet(sessionName) ==
    /\ storeRet' = <<"getSession", sessionName, getSession(files, sessionName)>>
    /\ UNCHANGED <<files, created, StoreRest>>

\* listSessions, lines 123-142
StoreList ==
    /\ storeRet' = <<"listSessions", listSessions(files)>>
    /\ UNCHANGED <<files, created, StoreRest>>

\* isSessionActive, lines 144-157
StoreIsActive(sessionName) ==
    /\ storeRet' = <<"isSessionActive", sessionName,
                     isSessionActive(chromes, getSession(files, sessionName))>>
    /\ UNCHANGED <<files, created, StoreRest>>

\* deleteSession, lines 113-121
StoreDelete(sessionName) ==
    /\ files' = deleteSession(files, sessionName)
    /\ created' = [created EXCEPT ![sessionName] = FALSE]
    /\ storeRet' = <<"deleteSession", sessionName, sessionExists(files, sessionName)>>
    /\ UNCHANGED StoreRest

NextStore ==
    \/ StoreList
    \/ \E n \in StoreNames :
         \/ StoreExists(n)
         \/ StoreGet(n)
         \/ StoreIsActive(n)
         \/ StoreDelete(n)
         \/ \E updates \in StoreUpdates : StoreUpdate(n, updates)
         \/ \E wsEndpoint \in StoreEndpoints, pid \in Pids, headless \in BOOLEAN :
              StoreCreate(n, wsEndpoint, pid, headless)

SpecStore == InitStore /\ [][NextStore]_vars

-----------------------------------------------------------------------------
(* SpecList: the SessionManager calls of one process on session names of
   which one contains the text .json *)

\* a session name with .json inside; createSession takes any string
S3 == <<"s3", ".json", "x">>

ListNames == {S1, S3}

\* as InitStore, the sessions directory holding the files of ListNames
InitList ==
    /\ now = 0
    /\ files = [f \in {getSessionFile(n) : n \in ListNames} |-> <<>>]
    /\ daemons = [d \in Pids |-> NoDaemon]
    /\ chromes = [d \in Pids |->
          IF d = 1 THEN [state |-> "running", port |-> DebugPortBase]
                   ELSE ExitedChrome]
    /\ clients = [c \in Clients |-> NewClient]
    /\ created = [n \in ListNames |-> FALSE]
    /\ pongAt = [d \in Pids |-> 0]
    /\ calledAt = [n \in ListNames |-> -1]
    /\ stopped = {}
    /\ storeRet = <<"none">>
    /\ events = 0
    /\ ops = 0
    /\ limits = [ops |-> 0, events |-> 0, polls |-> pollRounds]
    /\ ctl = <<>>

NextList ==
    \/ StoreList
    \/ \E n \in ListNames :
         \/ StoreExists(n)
         \/ StoreGet(n)
         \/ StoreDelete(n)
         \/ \E updates \in StoreUpdates : StoreUpdate(n, updates)
         \/ \E wsEndpoint \in StoreEndpoints, pid \in Pids, headless \in BOOLEAN :
              StoreCreate(n, wsEndpoint, pid, headless)

SpecList == InitList /\ [][NextList]_vars

-----------------------------------------------------------------------------
(* Properties *)

\* the step in which the monitor timer of daemon d begins the shutdown
IdleShutdownStep(d) ==
    /\ daemons[d].pc = "running"
    /\ daemons'[d].pc = "closing"
    /\ daemons'[d].trigger = "idle"

\* a record of the file store written by the process `pid`
RecordOf(pid) ==
    {n \in StoreNames : /\ getSession(files, n) # <<>>
                        /\ getSession(files, n)[1].pid = pid}

\* C1 (SpecIdle): a Running daemon is never idle for more than the timeout
\* and one monitor interval, and the monitor begins the shutdown only at a
\* tick at which now - lastActivity exceeds the 15 minutes.
C1_IdleTimeout ==
    /\ [](\A d \in Pids :
            daemons[d].pc = "running"
               => now - daemons[d].lastActivity <= timeoutMs + checkInterval)
    /\ [][\A d \in Pids :
            IdleShutdownStep(d) => now - daemons[d].lastActivity > timeoutMs]_vars

\* C1: no ping ever arrived and the shutdown began one interval after 15 min
C1_Witness ==
    /\ daemons[1].pc = "closing"
    /\ daemons[1].trigger = "idle"
    /\ daemons[1].lastActivity = 0
    /\ pongAt[1] = 0
    /\ now = timeoutMs + checkInterval

\* C2 (SpecIdle): the step that answers a ping leaves lastActivity at the
\* time of the answer, and no idle shutdown begins within 15 minutes of the
\* last pong the daemon wrote.
C2_Keepalive ==
    [][\A d \in Pids :
         /\ pongAt'[d] # pongAt[d] => daemons'[d].lastActivity = pongAt'[d]
         /\ IdleShutdownStep(d) => now - pongAt[d] > timeoutMs]_vars

\* C2: a daemon that answered a ping runs past the deadline it started with
C2_Witness ==
    /\ daemons[1].pc = "running"
    /\ pongAt[1] > 0
    /\ now > timeoutMs + checkInterval

\* C3 (Spec), as the specification states it: a connectToSession whose ping
\* found no listener or got no pong ends with the Stale error, and the record
\* it had read is gone.
C3_SelfHealing ==
    \A c \in Clients :
       (/\ clients[c].op = "connect"
        /\ clients[c].pc = "done"
        /\ clients[c].ping \in {"refused", "timeout"})
          => /\ clients[c].result = "Stale"
             /\ RecordOf(clients[c].session[1].pid) = {}

\* C4 (Spec), as the specification states it: once the daemon that wrote
\* the record of a started session was killed, isSessionActive of the record
\* is false, and a resolution ends with Stale and the record gone.
C4_KilledDaemon ==
    \A c \in Clients :
       (/\ clients[c].pc = "done"
        /\ clients[c].deadOwner
        /\ hasControlPort(clients[c].session))
          => /\ clients[c].op = "list" => clients[c].result = "inactive"
             /\ clients[c].op = "connect"
                   => /\ clients[c].result = "Stale"
                      /\ RecordOf(clients[c].session[1].pid) = {}

\* C5 (Spec): the step of startSession that follows the liveness probe ends
\* with AlreadyActive exactly when the browser of the record answers, and
\* then no daemon is spawned and the session files are as they were.
C5_AlreadyActive ==
    [][\A c \in Clients :
         (/\ clients[c].op = "start"
          /\ clients[c].pc = "probe"
          /\ clients'[c] # clients[c])
            => IF /\ clients[c].probe # <<>>
                  /\ canConnect(chromes, clients[c].probe[1].wsEndpoint)
               THEN /\ clients'[c].pc = "done"
                    /\ clients'[c].result = "AlreadyActive"
                    /\ clients'[c].spawned = {}
                    /\ daemons' = daemons
                    /\ files' = files
               ELSE clients'[c].result # "AlreadyActive"]_vars

\* C5: a startSession ended with AlreadyActive beside the Running daemon
C5_Witness ==
    \E c \in Clients :
       /\ clients[c].op = "start"
       /\ clients[c].result = "AlreadyActive"
       /\ clients[c].spawned = {}
       /\ \E d \in Pids : daemons[d].pc = "running" /\ RecordOf(d) # {}

\* C6 (Spec), as the specification states it: of two startSession calls for
\* one name that both returned, neither by the timeout and with no outside
\* event, one ended with AlreadyActive, and one daemon process lives.
C6_SingleDaemon ==
    (/\ events = 0
     /\ \A c \in Clients :
          /\ clients[c].op = "start"
          /\ clients[c].pc = "done"
          /\ clients[c].name = S1
          /\ clients[c].result # "StartTimeout")
       => /\ \E c \in Clients : clients[c].result = "AlreadyActive"
          /\ Cardinality({d \in Pids : Alive(daemons[d])}) = 1

\* C7 (Spec), as the specification states it: every visible record holds
\* its controlPort.
C7_NoPartialRecord ==
    \A n \in StoreNames :
       sessionExists(files, n) => hasControlPort(getSession(files, n))

\* a daemon process that ended because start() failed
StartFailed(d) ==
    /\ daemons[d].pc \in {"exited", "crashed"}
    /\ daemons[d].trigger = "none"

\* C8 (Spec), as the specification states it: a daemon whose start() failed
\* leaves no record of its own behind.
C8_FailedStartNoRecord ==
    \A d \in Pids : StartFailed(d) => RecordOf(d) = {}

\* C9 (SpecStore): after every sequence of SessionManager calls a session
\* file exists exactly for the names with a createSession and no
\* deleteSession since, and sessionExists answers that.
C9_StoreExistence ==
    /\ \A n \in StoreNames : sessionExists(files, n) <=> created[n]
    /\ \A n \in StoreNames :
          (Len(storeRet) = 3 /\ storeRet[1] = "sessionExists" /\ storeRet[2] = n)
             => storeRet[3] = created[n]

\* C9: a session was created, updated and deleted while another one exists
C9_Witness ==
    /\ storeRet = <<"deleteSession", S1, TRUE>>
    /\ ~created[S1]
    /\ created[S2]
    /\ hasControlPort(getSession(files, S2))

\* C10 (Spec), as the specification states it: once a stopSession of a
\* started session has returned, no record of that session is visible, and
\* no ping that begins afterwards gets a pong.
C10_StopEndsSession ==
    \A c \in Clients :
       /\ (/\ clients[c].op = "stop"
           /\ clients[c].result = "stopped"
           /\ hasControlPort(clients[c].session))
             => RecordOf(clients[c].session[1].pid) = {}
       /\ clients[c].afterStop => clients[c].ping # "pong"

\* C11 (SpecIdle), as the specification states it: the handler of a ping a
\* Running daemon received ends with the pong sent to the client, the
\* daemon's lastActivity at the time of the ping and, where a record exists,
\* the record's lastActivity at that time.
C11_PingEffect ==
    [][\A d \in Pids, c \in Clients :
         (/\ daemons[d].pc = "running"
          /\ daemons[d].req = <<c>>
          /\ daemons'[d] # daemons[d])
            => /\ clients'[c].reply = "pong"
               /\ daemons'[d].lastActivity = now
               /\ sessionExists(files', daemons[d].sessionName)
                     => getSession(files', daemons[d].sessionName)[1].lastActivity
                           = toISOString(now)]_vars

\* C19 (Spec), as the specification states it: no daemon dies in the handler
\* of a ping, whether the record is missing or its write fails.
C19_PersistenceTolerated ==
    \A d \in Pids : ~(daemons[d].pc = "crashed" /\ daemons[d].trigger = "ping")

\* the step in which a daemon handled the chunk now in ctl
DataStep == ctl = <<>> /\ ctl' # <<>>

\* C12 (SpecCtl): the answer to a status request is the object {active: true,
\* lastActivity, timeUntilShutdown} with the daemon's lastActivity and
\* max(0, 15 min - (now - lastActivity)), which lies between 0 and 15 min.
C12_StatusResponse ==
    [][(DataStep /\ trim(ctl'[1].message) = <<"status">>)
          => LET dm == daemons[ctl'[1].daemon]
                 reply == ctl'[1].reply
             IN /\ reply # <<>>
                /\ DOMAIN reply[1] = {"active", "lastActivity", "timeUntilShutdown"}
                /\ reply[1].active = TRUE
                /\ reply[1].lastActivity = dm.lastActivity
                /\ reply[1].timeUntilShutdown
                      = Max(0, timeoutMs - (now - dm.lastActivity))
                /\ reply[1].timeUntilShutdown >= 0
                /\ reply[1].timeUntilShutdown <= timeoutMs]_vars

\* C12: a status answered after the timeout passed and before the monitor's
\* tick ran, by a daemon that had answered a ping
C12_Witness ==
    /\ ctl # <<>>
    /\ ctl[1].reply # <<>>
    /\ ctl[1].reply[1].timeUntilShutdown = 0
    /\ ctl[1].reply[1].lastActivity > 0
    /\ now - ctl[1].reply[1].lastActivity > timeoutMs

\* C13 (SpecCtl): a chunk that is neither ping nor status once trimmed draws
\* no answer and changes neither the daemons nor the session files.
C13_UnknownIgnored ==
    [][(DataStep /\ trim(ctl'[1].message) \notin {<<"ping">>, <<"status">>})
          => /\ ctl'[1].reply = <<>>
             /\ daemons' = daemons
             /\ files' = files]_vars

\* C13: an upper-case STATUS went unanswered
C13_Witness ==
    /\ ctl # <<>>
    /\ ctl[1].message = <<"STATUS", "\n">>
    /\ ctl[1].reply = <<>>
    /\ daemons[ctl[1].daemon].pc = "running"

\* C14 (Spec), as the specification states it: a resolution ends with
\* NotFound exactly when it found no record; one that found the record of a
\* started session ends attached, with the attach failed, or with Stale and
\* the record gone, and with no other error.
C14_NotFoundOrStale ==
    \A c \in Clients :
       (clients[c].op = "connect" /\ clients[c].pc = "done")
          => /\ clients[c].result = "NotFound" <=> clients[c].session = <<>>
             /\ hasControlPort(clients[c].session)
                   => /\ clients[c].result \in {"connected", "ConnectFailed", "Stale"}
                      /\ clients[c].result = "Stale"
                            => RecordOf(clients[c].session[1].pid) = {}

\* a startSession that has begun and not ended
Starting(c) ==
    /\ clients[c].op = "start"
    /\ clients[c].pc \in {"probe", "startDelete", "poll"}

\* C15 (SpecStart): a startSession that began ends; it ends with success
\* only in a poll round that read a record with controlPort; a round that
\* read none counts one attempt; and it ends with the timeout error only
\* after maxAttempts such rounds.
C15_BoundedStart ==
    /\ \A c \in StartClients : Starting(c) ~> clients[c].pc = "done"
    /\ [](\A c \in StartClients : clients[c].attempts <= maxAttempts)
    /\ [][\A c \in StartClients :
            (clients[c].pc = "poll" /\ clients'[c] # clients[c])
               => LET session == getSession(files, clients[c].name) IN
                  IF clients[c].attempts >= maxAttempts
                  THEN clients'[c].pc = "done" /\ clients'[c].result = "StartTimeout"
                  ELSE IF hasControlPort(session)
                  THEN /\ clients'[c].pc = "done"
                       /\ clients'[c].result = "started"
                       /\ clients'[c].session = session
                  ELSE /\ clients'[c].pc = "poll"
                       /\ clients'[c].attempts = clients[c].attempts + 1]_vars
    /\ [](\A c \in StartClients :
            (clients[c].op = "start" /\ clients[c].result = "started")
               => hasControlPort(clients[c].session))

\* C15: the start timed out over the record a failed daemon start left
C15_Witness ==
    /\ clients["c1"].op = "start"
    /\ clients["c1"].result = "StartTimeout"
    /\ sessionExists(files, S1)
    /\ ~hasControlPort(getSession(files, S1))

\* C16 (SpecStart), as the specification states it: a startSession that
\* found the record of a killed daemon does not end with AlreadyActive; once
\* past the probe it has spawned a daemon.
C16_StartOverStale ==
    \A c \in StartClients :
       (/\ clients[c].op = "start"
        /\ clients[c].deadOwner
        /\ clients[c].pc \in {"poll", "done"})
          => /\ clients[c].result # "AlreadyActive"
             /\ clients[c].spawned # {}

\* C17 (Spec): the step in which the probe of isSessionActive settles, be it
\* true or false, and the step in which listSessions reads the directory
\* leave every session file as it was.
C17_ProbeReadOnly ==
    [][\A c \in Clients :
         /\ (clients[c].pc = "probe" /\ clients'[c] # clients[c])
               => files' = files /\ created' = created
         /\ (clients[c].pc = "idle" /\ clients'[c].op = "list")
               => files' = files /\ created' = created]_vars

\* C17: listSessions found the session inactive and its record is still there
C17_Witness ==
    \E c \in Clients :
       /\ clients[c].op = "list"
       /\ clients[c].result = "inactive"
       /\ sessionExists(files, clients[c].name)
       /\ ~isSessionActive(chromes, getSession(files, clients[c].name))

\* C18 (SpecCap), as the specification states it: a step that changes the
\* lastActivity or the currentUrl of a record is a step of the daemon that
\* owns the record.
C18_SingleWriter ==
    [][\A n \in StoreNames :
         (/\ sessionExists(files, n)
          /\ sessionExists(files', n)
          /\ \/ getSession(files', n)[1].currentUrl # getSession(files, n)[1].currentUrl
             \/ getSession(files', n)[1].lastActivity # getSession(files, n)[1].lastActivity)
            => daemons'[getSession(files, n)[1].pid] # daemons[getSession(files, n)[1].pid]]_vars

\* C20 (SpecCap), as the specification states it: the step in which a
\* capability call of a client fails, the attach of connectToSession
\* included, leaves the session files and the daemons as they were.
C20_CapabilityErrorFrame ==
    [][\A c \in CapClients :
         (/\ clients'[c] # clients[c]
          /\ clients'[c].result \in {"ConnectFailed", "CapabilityError"})
            => files' = files /\ daemons' = daemons]_vars

\* no ping is under way and none will begin
PingsStopped ==
    /\ ops = limits.ops
    /\ \A c \in Clients : clients[c].pc \in {"idle", "done"}
    /\ \A d \in Pids : daemons[d].conns = {} /\ daemons[d].req = <<>>

\* the latest time of a last ping after which the clock of the model still
\* reaches the tick that ends the session
QuietBy == MaxTime - timeoutMs - checkInterval

\* C21 (SpecTeardown), as the specification states it: once the pings have
\* stopped, the daemon that was Running ends with its record removed,
\* whatever step the client died at (the daemon's own failed write of C19
\* set aside).
C21_TeardownImmune ==
    (/\ PingsStopped
     /\ daemons[1].lastActivity <= QuietBy
     /\ ~(daemons[1].pc = "crashed" /\ daemons[1].trigger = "ping"))
       ~> (daemons[1].pc = "exited" /\ ~sessionExists(files, S1))

\* C22 (SpecMulti), as the specification states it: while s1 is Running
\* and no outside event happened, the daemon of a session s2 does not fail to
\* start, and two records with control ports carry different ports.
C22_MultipleSessions ==
    /\ \A d \in Pids :
          (/\ events = 0
           /\ daemons[d].sessionName = S2
           /\ daemons[1].pc = "running")
             => ~StartFailed(d)
    /\ (hasControlPort(getSession(files, S1)) /\ hasControlPort(getSession(files, S2)))
          => getSession(files, S1)[1].controlPort # getSession(files, S2)[1].controlPort

\* C23 (SpecLong), as the specification states it: the monitor begins the
\* idle shutdown of a session only when no command was run against the
\* session within the 15 minutes before.
C23_ShutdownAfterInactivity ==
    [][\A d \in Pids :
         IdleShutdownStep(d)
            => \/ calledAt[daemons[d].sessionName] = -1
               \/ now - calledAt[daemons[d].sessionName] > timeoutMs]_vars

\* the browser the daemon holds is released: no Chrome behind it runs
Released(cs, dm) == \A k \in dm.browser : cs[k].state # "running"

\* the step in which daemon d exits at the end of shutdown()
ShutdownExitStep(d) ==
    /\ Alive(daemons[d])
    /\ daemons'[d].pc = "exited"
    /\ daemons'[d].trigger \in {"idle", "signal"}

C25_StopTriggersShutdown ==
    \A d \in Pids :
       (/\ d \in stopped
        /\ daemons[d].pc = "running"
        /\ now - daemons[d].lastActivity <= timeoutMs - checkInterval)
          ~> (~Alive(daemons[d]) /\ daemons[d].trigger # "idle")

\* C26 (SpecCtl), as the specification states it: the daemon writes at most
\* one answer on a connection.
C26_OneRequestPerConnection ==
    ctl # <<>> => ctl[1].answers <= 1

\* C27 (SpecPing): a pingDaemon call that began settles; once settled its
\* promise does not change; it is resolved exactly if a chunk that trims to
\* pong arrived before an error and before the timer fired; and it is
\* rejected only by an 'error' event or by the timer.
C27_BoundedPing ==
    /\ \A c \in PingClients :
          clients[c].pd.state = "pending" ~> clients[c].pd.state # "pending"
    /\ [](\A c \in PingClients :
            LET pd == clients[c].pd IN
            /\ pd.state = "pending" => pd.timer
            /\ pd.pong <=> pd.state = "resolved"
            /\ pd.state = "rejected" <=> pd.why \in {"error", "timeout"})
    /\ [][\A c \in PingClients :
            (clients[c].pd.state \in {"resolved", "rejected"} /\ clients'[c].pc # "idle")
               => /\ clients'[c].pd.state = clients[c].pd.state
                  /\ clients'[c].pd.why = clients[c].pd.why]_vars

\* C27: the peer answered something else than pong and the timer rejected
C27_Witness ==
    /\ clients["c1"].pd.state = "rejected"
    /\ clients["c1"].pd.why = "timeout"
    /\ clients["c1"].pd.data = <<"PONG", "\n">>
    /\ clients["c1"].pd.sock = "destroyed"
    /\ clients["c1"].result = "PingRejected"

\* C28 (SpecCap), as the specification states it: a step of a client other
\* than a stop removes a session file only after the liveness probe of that
\* client's operation failed, and never after its ping and its probe both
\* succeeded.
C28_DeleteOnlyStale ==
    [][\A c \in CapClients, n \in Names :
         (/\ clients'[c] # clients[c]
          /\ clients[c].op # "stop"
          /\ sessionExists(files, n)
          /\ ~sessionExists(files', n))
            => /\ clients[c].pc \in {"staleDelete", "startDelete"}
               /\ ~(clients[c].ping = "pong" /\ clients[c].pc = "attach")]_vars

\* how far a daemon is: Starting, Running, ShuttingDown, Terminated
Stage(dm) ==
    CASE dm.pc = "none" -> 0
      [] dm.pc = "running" -> 2
      [] dm.pc = "closing" -> 3
      [] dm.pc \in Dead \ {"none"} -> 4
      [] OTHER -> 1

\* C29 (SpecIdle): no step takes a daemon back to an earlier stage; a daemon
\* in shutdown stays without timer and without listener, whatever ping,
\* tick or signal comes; a daemon that ended stays as it ended; and no step
\* of the run brings back a session file that was deleted.
C29_StagesAdvance ==
    [][/\ \A d \in Pids :
            /\ Stage(daemons'[d]) >= Stage(daemons[d])
            /\ Stage(daemons[d]) = 3
                  => ~daemons'[d].monitorTimer /\ ~daemons'[d].listening
            /\ Stage(daemons[d]) = 4 => daemons'[d] = daemons[d]
       /\ \A n \in StoreNames :
            ~sessionExists(files, n) => ~sessionExists(files', n)]_vars

\* C29: a daemon in shutdown is in the handler of a ping that came on a
\* connection opened before, and has set lastActivity anew
C29_Witness ==
    /\ daemons[1].pc = "closing"
    /\ daemons[1].req = <<"c1">>
    /\ daemons[1].lastActivity = now
    /\ now > 0

\* C30 (SpecList), as the specification states it: what listSessions
\* returns is the set of the records of the names for which a session file
\* exists.
C30_ListComplete ==
    storeRet[1] = "listSessions"
       => storeRet[2] = {getSession(files, n)[1] :
                            n \in {m \in ListNames : sessionExists(files, m)}}

\* C31 (SpecStore): updateSession(name, updates) on a record writes a record
\* with the fields of the old one and of the updates, the given fields
\* holding the given values and every other field its old value, leaves the
\* file of every other name as it was and returns true; on a name without a
\* record it returns false and leaves the files as they were.
C31_UpdateMerges ==
    [][storeRet'[1] = "updateSession"
         => LET n == storeRet'[2]
                updates == storeRet'[4]
                old == getSession(files, n)
                new == getSession(files', n)
            IN IF old = <<>>
               THEN storeRet'[3] = FALSE /\ files' = files
               ELSE /\ storeRet'[3] = TRUE
                    /\ new # <<>>
                    /\ DOMAIN new[1] = DOMAIN old[1] \cup DOMAIN updates
                    /\ \A f \in DOMAIN new[1] :
                          new[1][f] = IF f \in DOMAIN updates THEN updates[f]
                                                              ELSE old[1][f]
                    /\ \A m \in StoreNames \ {n} :
                          getSession(files', m) = getSession(files, m)]_vars

\* C31: an update changed the currentUrl of a record that holds its ports,
\* beside another record
C31_Witness ==
    /\ storeRet = <<"updateSession", S1, TRUE, [currentUrl |-> <<"u1">>]>>
    /\ hasControlPort(getSession(files, S1))
    /\ getSession(files, S1)[1].currentUrl = <<"u1">>
    /\ getSession(files, S1)[1].pid = 2
    /\ sessionExists(files, S2)

\* C32 (Spec), as the specification states it: a step in which a daemon
\* that has created its record changes or removes the record of its session
\* name finds there a record with its own pid.
C32_RecordOwnership ==
    [][\A d \in Pids :
         LET n == daemons[d].sessionName IN
         (/\ daemons[d].pc \in {"update", "updateWrite", "running", "closing"}
          /\ daemons'[d] # daemons[d]
          /\ sessionExists(files, n)
          /\ getSession(files', n) # getSession(files, n))
            => getSession(files, n)[1].pid = d]_vars

\* C33 (SpecRace), as the specification states it: no step takes the
\* lastActivity of a record back to an earlier time, and none puts the
\* currentUrl a client wrote back to the null the record was created with.
C33_NoLostUpdate ==
    [][\A n \in Names :
         (sessionExists(files, n) /\ sessionExists(files', n))
            => /\ getSession(files', n)[1].lastActivity[2]
                     >= getSession(files, n)[1].lastActivity[2]
               /\ getSession(files, n)[1].currentUrl # <<>>
                     => getSession(files', n)[1].currentUrl # <<>>]_vars

\* C34 (SpecRace, where no session is started), as the specification states
\* it: once a daemon has gone through its shutdown, which removes the
\* record, no record of its session name exists.
C34_NoResurrection ==
    \A d \in Pids :
       (daemons[d].pc = "exited" /\ daemons[d].trigger \in {"idle", "signal"})
          => ~sessionExists(files, daemons[d].sessionName)

\* C35 (SpecMulti), as the specification states it: two records of
\* different session names carry different endpoints, and the browser a
\* daemon is connected to is the one it launched itself.
C35_DistinctBrowsers ==
    /\ \A n1 \in StoreNames, n2 \in StoreNames :
          (n1 # n2 /\ sessionExists(files, n1) /\ sessionExists(files, n2))
             => getSession(files, n1)[1].wsEndpoint # getSession(files, n2)[1].wsEndpoint
    /\ \A d \in Pids : Alive(daemons[d]) => daemons[d].browser \subseteq {d}

\* C36 (SpecIdle), as the specification states it: no daemon runs the
\* cleanup of shutdown (clear the timer, close the listener, close the
\* browser) a second time.
C36_ShutdownOnce ==
    \A d \in Pids : daemons[d].shutdowns <= 1

\* C37 (SpecRace), as the specification states it: a command that a client
\* attached to a session runs when the record of the session is gone ends
\* with NotFound or Stale.
C37_NoDeadAttachment ==
    [][\A c \in Clients :
         (/\ Attached(clients[c])
          /\ ~sessionExists(files, clients[c].name)
          /\ clients'[c] # clients[c]
          /\ clients'[c].pc # "idle")
            => clients'[c].result \in {"NotFound", "Stale"}]_vars

\* C38 (SpecCap), as the specification states it: the step in which a
\* client runs cleanup() drops the handles of that client and leaves the
\* browsers, the daemons and the session files as they were.
C38_CleanupReleasesClient ==
    [][\A c \in CapClients :
         (/\ clients[c].pc = "done"
          /\ clients'[c].pc = "done"
          /\ clients[c].browser # {}
          /\ clients'[c].browser = {})
            => chromes' = chromes /\ daemons' = daemons /\ files' = files]_vars

====
